---- MODULE Spec2Model ----
(***************************************************************************)
(* Model of the firebase client library's two stateful cores:              *)
(*   - the push identifier generator (IDGen.GeneratePushID), and           *)
(*   - the server-sent-event change stream (readLine, Watch).              *)
(* Strings are sequences of one-character strings; identifiers are         *)
(* sequences of ASCII codes, compared as Go compares strings (bytewise).   *)
(***************************************************************************)
EXTENDS Integers, Sequences, FiniteSets, TLC

(***************************************************************************)
(* Bounds of the model.                                                    *)
(***************************************************************************)
\* number of goroutines calling GeneratePushID on the shared generator
NumCallers == 2
\* total number of GeneratePushID calls explored
MaxCalls == 3
\* number of milliseconds the clock advances during a run
MaxTicks == 2
\* millisecond timestamp at which the run starts (4095 = 63*64 + 63, so the
\* first tick carries into the third-last digit of the stamp prefix)
StartClock == 4095
\* largest channel capacity passed to the WatchBufferLen option
MaxBufLen == 2
\* number of readLine calls one Watch session makes at most
MaxReads == 6
\* number of Watch sessions
MaxSessions == 2
\* number of readLine calls the sessions of one Listen call make between them
MaxListenReads == 2
\* number of requests made on the security rules
MaxRequests == 3

(***************************************************************************)
(* Push identifier generator.                                              *)
(***************************************************************************)
\* defaultPushIDChars, as the ASCII codes of its 64 bytes
defaultPushIDChars ==
    <<45>> \o [i \in 1..10 |-> 47 + i] \o [i \in 1..26 |-> 64 + i]
           \o <<95>> \o [i \in 1..26 |-> 96 + i]

\* the number the counter digits and the stamp digits are taken modulo
Base == 64
\* len of IDGen.last
LastLen == 12
\* number of identifier bytes that encode the timestamp
StampLen == 8
\* make([]byte, 20)
IDLen == 20

Callers == 1..NumCallers

\* defaultPushIDChars[k] for a 0-based index k
CharAt(k) == defaultPushIDChars[k + 1]

\* make([]byte, 20): a zeroed buffer, indexed 0..19 as in the source
NewID == [i \in 0..(IDLen - 1) |-> 0]

\* the loop of GeneratePushID that increments ig.last, from index i on
RECURSIVE IncrementFrom(_, _)
IncrementFrom(l, i) ==
    IF i >= LastLen THEN l
    ELSE IF l[i] + 1 < Base THEN [l EXCEPT ![i] = l[i] + 1]
    ELSE IncrementFrom([l EXCEPT ![i] = 0], i + 1)

\* a generator that never increments the counter
NoIncrementLast(l) == l

\* for i = 0; i < 12; i++ { ig.last[i]++; if ig.last[i] < 64 { break }; ig.last[i] = 0 }
IncrementLast(l) == IncrementFrom(l, 0)

\* the counter digits written least significant first
SetLastForward(buf, l) ==
    [i \in 0..(IDLen - 1) |-> IF i >= StampLen THEN CharAt(l[i - StampLen]) ELSE buf[i]]

\* for i = 0; i < 12; i++ { id[19-i] = defaultPushIDChars[ig.last[i]] }
SetLast(buf, l) ==
    [i \in 0..(IDLen - 1) |->
        IF i >= IDLen - LastLen THEN CharAt(l[(IDLen - 1) - i]) ELSE buf[i]]

\* the stamp digits written least significant first
RECURSIVE SetStampForward(_, _, _)
SetStampForward(buf, t, i) ==
    IF i < 0 THEN buf
    ELSE SetStampForward([buf EXCEPT ![(StampLen - 1) - i] = CharAt(t % Base)],
                         t \div Base, i - 1)

\* for i = 7; i >= 0; i-- { id[i] = defaultPushIDChars[int(now%64)]; now /= 64 }
RECURSIVE SetStamp(_, _, _)
SetStamp(buf, t, i) ==
    IF i < 0 THEN buf
    ELSE SetStamp([buf EXCEPT ![i] = CharAt(t % Base)], t \div Base, i - 1)

\* string(id): the buffer as a 1-based sequence of bytes
String(buf) == [k \in 1..IDLen |-> buf[k - 1]]

\* Go's < on strings of equal length: bytewise lexicographic order
StrLess(a, b) ==
    \E k \in 1..Len(a) : a[k] < b[k] /\ \A j \in 1..(k - 1) : a[j] = b[j]

\* values r.Intn(64) can give the twelve digits in NewPushIDGenerator
SeedLast ==
    { [i \in 0..(LastLen - 1) |-> 63],
      [i \in 0..(LastLen - 1) |-> IF i = 0 THEN 62 ELSE 63],
      [i \in 0..(LastLen - 1) |-> IF i < 2 THEN 63 ELSE 5],
      [i \in 0..(LastLen - 1) |-> 5 * i],
      [i \in 0..(LastLen - 1) |-> 0] }

VARIABLES
    clock,      \* time.Now() in milliseconds
    mu,         \* IDGen.mu: 0 when free, else the caller holding it
    stamp,      \* IDGen.stamp
    last,       \* IDGen.last
    gpc,        \* position of each caller in GeneratePushID
    now,        \* local variable now of each call
    id,         \* local buffer id of each call
    ticket,     \* position of each call in the order of critical sections
    csLast,     \* ig.last as each call left it in its critical section
    calls,      \* number of critical sections entered so far
    issued,     \* the identifiers returned so far
    ctxDone,    \* whether ctxt.Done() is closed
    watchBufLen, \* r.watchBufLen
    call,       \* how the request of each Watch call went
    ret,        \* what each Watch call returned
    wpc,        \* position of each session's read loop
    nreads,     \* number of readLine calls of each session
    typ,        \* local variable typ of each read loop
    data,       \* local variable data of each read loop
    errEvent,   \* local variable errEvent of each read loop
    events,     \* the buffered values of each session's channel
    closes,     \* number of close(events) calls on each session's channel
    body,       \* res.Body of each session
    sent,       \* every value sent on each session's channel, in order
    exit,       \* the branch through which each read loop left
    sentAtCancel, \* number of values each session had sent when ctxt was cancelled
    received,   \* the values the consumer received from each channel
    sawClose,   \* whether the consumer has seen each channel closed
    frame,      \* what rdr.ReadBytes returned to each read loop in its current iteration
    frameBase,  \* number of values each session had sent when that iteration began
    eventTypes, \* argument eventTypes of Listen
    lpc,        \* position of Listen's goroutine
    cur,        \* the Watch call whose channel ev Listen ranges over
    le,         \* local variable e of Listen's goroutine
    ti,         \* position of the loop over eventTypes
    levents,    \* the buffered values of Listen's channel
    lcloses,    \* number of close(events) calls on Listen's channel
    lreceived,  \* the values the consumer received from Listen's channel
    rules,      \* the security rules the database stores at /.settings/rules
    requests    \* the HTTP requests Do has executed, with the server's answer

idVars == <<clock, mu, stamp, last, gpc, now, id, ticket, csLast, calls, issued>>

watchVars ==
    <<ctxDone, watchBufLen, call, ret, wpc, nreads, typ, data, errEvent, events, closes,
      body, sent, exit, sentAtCancel, received, sawClose, frame, frameBase>>

listenVars == <<eventTypes, lpc, cur, le, ti, levents, lcloses, lreceived>>

rulesVars == <<rules, requests>>

vars == <<idVars, watchVars, listenVars, rulesVars>>

\* NewPushIDGenerator: zero stamp, unlocked mutex, twelve random digits
InitIDGen ==
    /\ clock = StartClock
    /\ mu = 0
    /\ stamp = 0
    /\ last \in SeedLast
    /\ gpc = [c \in Callers |-> "idle"]
    /\ now = [c \in Callers |-> 0]
    /\ id = [c \in Callers |-> NewID]
    /\ ticket = [c \in Callers |-> 0]
    /\ csLast = [c \in Callers |-> [i \in 0..(LastLen - 1) |-> 0]]
    /\ calls = 0
    /\ issued = {}

\* the wall clock advances by a millisecond
Tick ==
    /\ clock < StartClock + MaxTicks
    /\ clock' = clock + 1
    /\ UNCHANGED <<mu, stamp, last, gpc, now, id, ticket, csLast, calls, issued>>
    /\ UNCHANGED watchVars
    /\ UNCHANGED listenVars
    /\ UNCHANGED rulesVars

\* id := make([]byte, 20); ig.mu.Lock()
Lock(c) ==
    /\ gpc[c] = "idle"
    /\ calls < MaxCalls
    /\ mu = 0
    /\ mu' = c
    /\ calls' = calls + 1
    /\ ticket' = [ticket EXCEPT ![c] = calls + 1]
    /\ id' = [id EXCEPT ![c] = NewID]
    /\ gpc' = [gpc EXCEPT ![c] = "locked"]
    /\ UNCHANGED <<clock, stamp, last, now, csLast, issued>>
    /\ UNCHANGED watchVars
    /\ UNCHANGED listenVars
    /\ UNCHANGED rulesVars

\* a critical section that starts the counter from zero in a new millisecond
CriticalResetting(c) ==
    /\ gpc[c] = "locked"
    /\ mu = c
    /\ now' = [now EXCEPT ![c] = clock]
    /\ last' = IF stamp = clock THEN IncrementLast(last) ELSE [i \in 0..(LastLen - 1) |-> 0]
    /\ stamp' = clock
    /\ id' = [id EXCEPT ![c] = SetLast(id[c], last')]
    /\ csLast' = [csLast EXCEPT ![c] = last']
    /\ mu' = 0
    /\ gpc' = [gpc EXCEPT ![c] = "encode"]
    /\ UNCHANGED <<clock, ticket, calls, issued>>
    /\ UNCHANGED watchVars
    /\ UNCHANGED listenVars
    /\ UNCHANGED rulesVars

\* the critical section: read the clock, increment the counter when the
\* stamp repeats, store the stamp, copy the counter digits, ig.mu.Unlock()
Critical(c) ==
    /\ gpc[c] = "locked"
    /\ mu = c
    /\ now' = [now EXCEPT ![c] = clock]
    /\ last' = IF stamp = clock THEN IncrementLast(last) ELSE last
    /\ stamp' = clock
    /\ id' = [id EXCEPT ![c] = SetLast(id[c], last')]
    /\ csLast' = [csLast EXCEPT ![c] = last']
    /\ mu' = 0
    /\ gpc' = [gpc EXCEPT ![c] = "encode"]
    /\ UNCHANGED <<clock, ticket, calls, issued>>
    /\ UNCHANGED watchVars
    /\ UNCHANGED listenVars
    /\ UNCHANGED rulesVars

\* an encoding that reads ig.stamp after the unlock instead of the local now
EncodeFromStamp(c) ==
    /\ gpc[c] = "encode"
    /\ LET buf == SetStamp(id[c], stamp, StampLen - 1) IN
        /\ id' = [id EXCEPT ![c] = buf]
        /\ issued' = issued \cup
               { [ticket |-> ticket[c], caller |-> c, id |-> String(buf),
                  now |-> now[c], last |-> csLast[c],
                  overtaken |-> (stamp # now[c] /\ last # csLast[c])] }
    /\ gpc' = [gpc EXCEPT ![c] = "idle"]
    /\ UNCHANGED <<clock, mu, stamp, last, now, ticket, csLast, calls>>
    /\ UNCHANGED watchVars
    /\ UNCHANGED listenVars
    /\ UNCHANGED rulesVars

\* after the unlock: write the stamp digits and return string(id)
Encode(c) ==
    /\ gpc[c] = "encode"
    /\ LET buf == SetStamp(id[c], now[c], StampLen - 1) IN
        /\ id' = [id EXCEPT ![c] = buf]
        /\ issued' = issued \cup
               { [ticket |-> ticket[c], caller |-> c, id |-> String(buf),
                  now |-> now[c], last |-> csLast[c],
                  overtaken |-> (stamp # now[c] /\ last # csLast[c])] }
    /\ gpc' = [gpc EXCEPT ![c] = "idle"]
    /\ UNCHANGED <<clock, mu, stamp, last, now, ticket, csLast, calls>>
    /\ UNCHANGED watchVars
    /\ UNCHANGED listenVars
    /\ UNCHANGED rulesVars

NextIDGen ==
    \/ Tick
    \/ \E c \in Callers : Lock(c)
    \/ \E c \in Callers : Critical(c)
    \/ \E c \in Callers : Encode(c)


(***************************************************************************)
(* Server-sent events: byte strings, readLine and the Watch session.       *)
(***************************************************************************)
watchEventPrefix == <<"e", "v", "e", "n", "t", ":", " ">>
watchDataPrefix == <<"d", "a", "t", "a", ":", " ">>

EventTypePut == <<"p", "u", "t">>
EventTypePatch == <<"p", "a", "t", "c", "h">>
EventTypeClosed == <<"c", "l", "o", "s", "e", "d">>
EventTypeUnknownError == <<"u", "n", "k", "n", "o", "w", "n", "_", "e", "r", "r", "o", "r">>
EventTypeMalformedEventError ==
    <<"m", "a", "l", "f", "o", "r", "m", "e", "d", "_", "e", "v", "e", "n", "t", "_", "e", "r",
      "r", "o", "r">>
EventTypeMalformedDataError ==
    <<"m", "a", "l", "f", "o", "r", "m", "e", "d", "_", "d", "a", "t", "a", "_", "e", "r", "r",
      "o", "r">>

\* the Data of the events readLine synthesizes
MsgConnectionClosed ==
    <<"c", "o", "n", "n", "e", "c", "t", "i", "o", "n", " ", "c", "l", "o", "s", "e", "d">>
MsgExpectedEmptyLine ==
    <<"e", "x", "p", "e", "c", "t", "e", "d", " ", "e", "m", "p", "t", "y", " ", "l", "i", "n",
      "e">>
MsgMissingPrefix == <<"m", "i", "s", "s", "i", "n", "g", " ", "p", "r", "e", "f", "i", "x">>

\* err.Error() of a read error other than io.EOF
ErrText == <<"r", "e", "s", "e", "t">>

\* lines a server can send, each ending in a newline
LineEventPut == <<"e", "v", "e", "n", "t", ":", " ", "p", "u", "t", "\n">>
LineEventPatch ==
    <<"e", "v", "e", "n", "t", ":", " ", " ", "p", "a", "t", "c", "h", " ", "\r", "\n">>
LineData1 == <<"d", "a", "t", "a", ":", " ", "1", "\n">>
LineData2 == <<"d", "a", "t", "a", ":", " ", "\t", "2", " ", "\n">>
LineEmpty == <<"\n">>
LineBlank == <<" ", "\r", "\n">>
LineJunk == <<"x", "\n">>
PartialLine == <<"e", "v", "e", "n", "t", ":", " ", "p", "u", "t">>

\* the bytes bytes.TrimSpace removes
WhiteSpace == {" ", "\t", "\n", "\r"}

RECURSIVE TrimLeft(_)
TrimLeft(b) ==
    IF Len(b) > 0 /\ b[1] \in WhiteSpace THEN TrimLeft(Tail(b)) ELSE b

RECURSIVE TrimRight(_)
TrimRight(b) ==
    IF Len(b) > 0 /\ b[Len(b)] \in WhiteSpace THEN TrimRight(SubSeq(b, 1, Len(b) - 1)) ELSE b

\* a trim that leaves trailing white space in place
TrimSpaceLeading(b) == TrimLeft(b)

\* bytes.TrimSpace
TrimSpace(b) == TrimRight(TrimLeft(b))

\* bytes.HasPrefix
HasPrefix(b, prefix) ==
    Len(b) >= Len(prefix) /\ SubSeq(b, 1, Len(prefix)) = prefix

\* &Event{Type: t, Data: d}
Event(t, d) == [Type |-> t, Data |-> d]

\* a nil *Event or a nil []byte result; a non-nil *Event e is <<e>>
Nil == <<>>

\* what rdr.ReadBytes('\n') can return: a whole line, or the bytes read so far
\* with io.EOF or with another error
ReadResults ==
    { [line |-> l, err |-> "nil"] :
        l \in {LineEventPut, LineEventPatch, LineData1, LineData2, LineEmpty, LineBlank,
               LineJunk} }
    \cup { [line |-> l, err |-> "EOF"] : l \in {<<>>, PartialLine} }
    \cup { [line |-> <<>>, err |-> "other"] }

\* a readLine without the io.EOF case: every read error is an unknown error
readLineNoEOF(res, prefix, errEventType) ==
    IF res.err # "nil"
    THEN [line |-> Nil, ev |-> <<Event(EventTypeUnknownError, ErrText)>>]
    ELSE IF Len(prefix) = 0
    THEN IF Len(TrimSpace(res.line)) # 0
         THEN [line |-> Nil, ev |-> <<Event(errEventType, MsgExpectedEmptyLine)>>]
         ELSE [line |-> TrimSpace(res.line), ev |-> Nil]
    ELSE IF ~HasPrefix(res.line, prefix)
    THEN [line |-> Nil, ev |-> <<Event(errEventType, MsgMissingPrefix)>>]
    ELSE [line |-> TrimSpace(SubSeq(res.line, Len(prefix) + 1, Len(res.line))), ev |-> Nil]

\* readLine, on the result res of its rdr.ReadBytes('\n')
readLine(res, prefix, errEventType) ==
    IF res.err = "EOF"
    THEN [line |-> Nil, ev |-> <<Event(EventTypeClosed, MsgConnectionClosed)>>]
    ELSE IF res.err # "nil"
    THEN [line |-> Nil, ev |-> <<Event(EventTypeUnknownError, ErrText)>>]
    ELSE IF Len(prefix) = 0
    THEN IF Len(TrimSpace(res.line)) # 0
         THEN [line |-> Nil, ev |-> <<Event(errEventType, MsgExpectedEmptyLine)>>]
         ELSE [line |-> TrimSpace(res.line), ev |-> Nil]
    ELSE IF ~HasPrefix(res.line, prefix)
    THEN [line |-> Nil, ev |-> <<Event(errEventType, MsgMissingPrefix)>>]
    ELSE [line |-> TrimSpace(SubSeq(res.line, Len(prefix) + 1, Len(res.line))), ev |-> Nil]

\* a server error check that lets informational statuses through
checkServerErrorAbove(statusCode) == statusCode > 299

\* checkServerError(res) != nil
checkServerError(statusCode) == statusCode < 200 \/ statusCode > 299

\* res.StatusCode of the responses: the codes on both sides of 200 and 299
\* for a Watch call made directly, one success and one failure for the Watch
\* calls of Listen
StatusCodes == IF lpc = "none" THEN {199, 200, 299, 300, 404} ELSE {200, 404}

\* how the request of one Watch call can go: r.clientAndRequest fails,
\* client.Do fails, or a response arrives with a status code
CallResults ==
    { [fails |-> f, status |-> 0] : f \in {"request", "do"} }
    \cup { [fails |-> "no", status |-> c] : c \in StatusCodes }

Sessions == 1..MaxSessions

\* the synthesized event types that end a session
TerminalTypes ==
    { EventTypeClosed, EventTypeUnknownError, EventTypeMalformedEventError,
      EventTypeMalformedDataError }

(***************************************************************************)
(* The Watch session.                                                      *)
(***************************************************************************)
\* no Watch call made yet; the WatchBufferLen option sets r.watchBufLen
InitWatch ==
    /\ ctxDone = FALSE
    /\ watchBufLen \in 0..MaxBufLen
    /\ call = [s \in Sessions |-> Nil]
    /\ ret = [s \in Sessions |-> Nil]
    /\ wpc = [s \in Sessions |-> "none"]
    /\ nreads = [s \in Sessions |-> 0]
    /\ typ = [s \in Sessions |-> Nil]
    /\ data = [s \in Sessions |-> Nil]
    /\ errEvent = [s \in Sessions |-> Nil]
    /\ events = [s \in Sessions |-> <<>>]
    /\ closes = [s \in Sessions |-> 0]
    /\ body = [s \in Sessions |-> "none"]
    /\ sent = [s \in Sessions |-> <<>>]
    /\ exit = [s \in Sessions |-> "none"]
    /\ sentAtCancel = [s \in Sessions |-> 0]
    /\ received = [s \in Sessions |-> <<>>]
    /\ sawClose = [s \in Sessions |-> FALSE]
    /\ frame = [s \in Sessions |-> <<>>]
    /\ frameBase = [s \in Sessions |-> 0]

\* whether close(events) has run on the session's channel
Closed(s) == closes[s] > 0

\* the caller cancels the context
Cancel ==
    /\ ~ctxDone
    /\ ctxDone' = TRUE
    /\ sentAtCancel' = [s \in Sessions |-> Len(sent[s])]
    /\ UNCHANGED <<watchBufLen, call, ret, wpc, nreads, typ, data, errEvent, events, closes,
                   body, sent, exit, received, sawClose>>
    /\ UNCHANGED <<frame, frameBase>>
    /\ UNCHANGED idVars
    /\ UNCHANGED rulesVars
    /\ UNCHANGED listenVars

\* Watch up to "go func()": build the request, execute it, check the status;
\* on success make the channel and start the read loop
Watch(s) ==
    /\ ret[s] = Nil
    /\ \E in \in CallResults :
        /\ call' = [call EXCEPT ![s] = <<in>>]
        /\ IF in.fails # "no"
           THEN /\ ret' = [ret EXCEPT ![s] = <<[events |-> FALSE, err |-> TRUE]>>]
                /\ UNCHANGED <<wpc, body>>
           ELSE IF checkServerError(in.status)
           THEN /\ ret' = [ret EXCEPT ![s] = <<[events |-> FALSE, err |-> TRUE]>>]
                /\ body' = [body EXCEPT ![s] = "open"]
                /\ UNCHANGED wpc
           ELSE /\ ret' = [ret EXCEPT ![s] = <<[events |-> TRUE, err |-> FALSE]>>]
                /\ body' = [body EXCEPT ![s] = "open"]
                /\ wpc' = [wpc EXCEPT ![s] = "select"]
    /\ UNCHANGED <<ctxDone, watchBufLen, nreads, typ, data, errEvent, events, closes, sent,
                   exit, sentAtCancel, received, sawClose>>
    /\ UNCHANGED <<frame, frameBase>>

\* a program calls Watch itself
WatchCall(s) ==
    /\ Watch(s)
    /\ UNCHANGED idVars
    /\ UNCHANGED rulesVars
    /\ UNCHANGED listenVars

\* a send that does not block on a full buffer: the value is lost
SendOrDrop(s, e) ==
    /\ sent' = [sent EXCEPT ![s] = Append(@, e)]
    /\ \/ /\ Len(events[s]) < watchBufLen
          /\ events' = [events EXCEPT ![s] = Append(@, e)]
          /\ UNCHANGED received
       \/ /\ watchBufLen = 0
          /\ received' = [received EXCEPT ![s] = Append(@, e)]
          /\ UNCHANGED events
       \/ /\ watchBufLen > 0
          /\ Len(events[s]) >= watchBufLen
          /\ UNCHANGED <<events, received>>

\* events <- e: into the buffer when it has room, or straight to a receiver
\* when the channel is unbuffered
Send(s, e) ==
    /\ sent' = [sent EXCEPT ![s] = Append(@, e)]
    /\ \/ /\ Len(events[s]) < watchBufLen
          /\ events' = [events EXCEPT ![s] = Append(@, e)]
          /\ UNCHANGED received
       \/ /\ watchBufLen = 0
          /\ received' = [received EXCEPT ![s] = Append(@, e)]
          /\ UNCHANGED events

\* a select that never takes the ctxt.Done() case
SelectIgnoringDone(s) ==
    /\ wpc[s] = "select"
    /\ wpc' = [wpc EXCEPT ![s] = "readEvent"]
    /\ UNCHANGED <<ctxDone, watchBufLen, call, ret, nreads, typ, data, errEvent, events,
                   closes, body, sent, exit, sentAtCancel, received, sawClose>>
    /\ UNCHANGED <<frame, frameBase>>
    /\ UNCHANGED idVars
    /\ UNCHANGED rulesVars
    /\ UNCHANGED listenVars

\* select { default: ...; case <-ctxt.Done(): ... }: the Done case when the
\* context is done, the default case otherwise
Select(s) ==
    /\ wpc[s] = "select"
    /\ IF ctxDone
       THEN /\ wpc' = [wpc EXCEPT ![s] = "close"]
            /\ exit' = [exit EXCEPT ![s] = "cancel"]
       ELSE /\ wpc' = [wpc EXCEPT ![s] = "readEvent"]
            /\ UNCHANGED exit
    /\ UNCHANGED <<ctxDone, watchBufLen, call, ret, nreads, typ, data, errEvent, events,
                   closes, body, sent, sentAtCancel, received, sawClose>>
    /\ UNCHANGED <<frame, frameBase>>
    /\ UNCHANGED idVars
    /\ UNCHANGED rulesVars
    /\ UNCHANGED listenVars

\* typ, errEvent = readLine(rdr, watchEventPrefix, EventTypeMalformedEventError)
ReadEvent(s) ==
    /\ wpc[s] = "readEvent"
    /\ nreads[s] < MaxReads
    /\ \E res \in ReadResults :
        LET r == readLine(res, watchEventPrefix, EventTypeMalformedEventError) IN
        /\ typ' = [typ EXCEPT ![s] = r.line]
        /\ frame' = [frame EXCEPT ![s] = <<res>>]
        /\ frameBase' = [frameBase EXCEPT ![s] = Len(sent[s])]
        /\ errEvent' = [errEvent EXCEPT ![s] = r.ev]
        /\ wpc' = [wpc EXCEPT ![s] = IF r.ev # Nil THEN "sendErr" ELSE "readData"]
    /\ nreads' = [nreads EXCEPT ![s] = @ + 1]
    /\ UNCHANGED <<ctxDone, watchBufLen, call, ret, data, events, closes, body, sent, exit,
                   sentAtCancel, received, sawClose>>
    /\ UNCHANGED idVars
    /\ UNCHANGED rulesVars
    /\ UNCHANGED listenVars

\* data, errEvent = readLine(rdr, watchDataPrefix, EventTypeMalformedDataError)
ReadData(s) ==
    /\ wpc[s] = "readData"
    /\ nreads[s] < MaxReads
    /\ \E res \in ReadResults :
        LET r == readLine(res, watchDataPrefix, EventTypeMalformedDataError) IN
        /\ data' = [data EXCEPT ![s] = r.line]
        /\ frame' = [frame EXCEPT ![s] = Append(@, res)]
        /\ errEvent' = [errEvent EXCEPT ![s] = r.ev]
        /\ wpc' = [wpc EXCEPT ![s] = IF r.ev # Nil THEN "sendErr" ELSE "emit"]
    /\ nreads' = [nreads EXCEPT ![s] = @ + 1]
    /\ UNCHANGED <<ctxDone, watchBufLen, call, ret, typ, events, closes, body, sent, exit,
                   sentAtCancel, received, sawClose, frameBase>>
    /\ UNCHANGED idVars
    /\ UNCHANGED rulesVars
    /\ UNCHANGED listenVars

\* a loop that goes on to the third line without sending the parsed event
EmitNothing(s) ==
    /\ wpc[s] = "emit"
    /\ wpc' = [wpc EXCEPT ![s] = "readEmpty"]
    /\ UNCHANGED <<ctxDone, watchBufLen, call, ret, nreads, typ, data, errEvent, events,
                   closes, body, sent, exit, sentAtCancel, received, sawClose>>
    /\ UNCHANGED <<frame, frameBase>>
    /\ UNCHANGED idVars
    /\ UNCHANGED listenVars
    /\ UNCHANGED rulesVars

\* events <- &Event{Type: EventType(typ), Data: data}
Emit(s) ==
    /\ wpc[s] = "emit"
    /\ Send(s, Event(typ[s], data[s]))
    /\ wpc' = [wpc EXCEPT ![s] = "readEmpty"]
    /\ UNCHANGED <<ctxDone, watchBufLen, call, ret, nreads, typ, data, errEvent, closes,
                   body, exit, sentAtCancel, sawClose>>
    /\ UNCHANGED <<frame, frameBase>>
    /\ UNCHANGED idVars
    /\ UNCHANGED rulesVars
    /\ UNCHANGED listenVars

\* _, errEvent = readLine(rdr, "", EventTypeUnknownError)
ReadEmpty(s) ==
    /\ wpc[s] = "readEmpty"
    /\ nreads[s] < MaxReads
    /\ \E res \in ReadResults :
        LET r == readLine(res, <<>>, EventTypeUnknownError) IN
        /\ errEvent' = [errEvent EXCEPT ![s] = r.ev]
        /\ frame' = [frame EXCEPT ![s] = Append(@, res)]
        /\ wpc' = [wpc EXCEPT ![s] = IF r.ev # Nil THEN "sendErr" ELSE "select"]
    /\ nreads' = [nreads EXCEPT ![s] = @ + 1]
    /\ UNCHANGED <<ctxDone, watchBufLen, call, ret, typ, data, events, closes, body, sent,
                   exit, sentAtCancel, received, sawClose, frameBase>>
    /\ UNCHANGED idVars
    /\ UNCHANGED rulesVars
    /\ UNCHANGED listenVars

\* an error branch that closes the channel without sending errEvent
SkipSendErr(s) ==
    /\ wpc[s] = "sendErr"
    /\ wpc' = [wpc EXCEPT ![s] = "close"]
    /\ exit' = [exit EXCEPT ![s] = "error"]
    /\ UNCHANGED <<ctxDone, watchBufLen, call, ret, nreads, typ, data, errEvent, events,
                   closes, body, sent, sentAtCancel, received, sawClose>>
    /\ UNCHANGED <<frame, frameBase>>
    /\ UNCHANGED idVars
    /\ UNCHANGED rulesVars
    /\ UNCHANGED listenVars

\* if errEvent != nil { events <- errEvent; ... }
SendErr(s) ==
    /\ wpc[s] = "sendErr"
    /\ Send(s, errEvent[s][1])
    /\ wpc' = [wpc EXCEPT ![s] = "close"]
    /\ exit' = [exit EXCEPT ![s] = "error"]
    /\ UNCHANGED <<ctxDone, watchBufLen, call, ret, nreads, typ, data, errEvent, closes,
                   body, sentAtCancel, sawClose>>
    /\ UNCHANGED <<frame, frameBase>>
    /\ UNCHANGED idVars
    /\ UNCHANGED rulesVars
    /\ UNCHANGED listenVars

\* a close(events) that is not followed by return: the loop goes on
CloseAndLoop(s) ==
    /\ wpc[s] = "close"
    /\ closes' = [closes EXCEPT ![s] = @ + 1]
    /\ wpc' = [wpc EXCEPT ![s] = "select"]
    /\ UNCHANGED <<ctxDone, watchBufLen, call, ret, nreads, typ, data, errEvent, events,
                   body, sent, exit, sentAtCancel, received, sawClose>>
    /\ UNCHANGED <<frame, frameBase>>
    /\ UNCHANGED idVars
    /\ UNCHANGED rulesVars
    /\ UNCHANGED listenVars

\* close(events); return
Close(s) ==
    /\ wpc[s] = "close"
    /\ closes' = [closes EXCEPT ![s] = @ + 1]
    /\ wpc' = [wpc EXCEPT ![s] = "exit"]
    /\ UNCHANGED <<ctxDone, watchBufLen, call, ret, nreads, typ, data, errEvent, events,
                   body, sent, exit, sentAtCancel, received, sawClose>>
    /\ UNCHANGED <<frame, frameBase>>
    /\ UNCHANGED idVars
    /\ UNCHANGED rulesVars
    /\ UNCHANGED listenVars

\* a read loop without the deferred res.Body.Close()
ExitLeavingBodyOpen(s) ==
    /\ wpc[s] = "exit"
    /\ wpc' = [wpc EXCEPT ![s] = "done"]
    /\ UNCHANGED <<ctxDone, watchBufLen, call, ret, nreads, typ, data, errEvent, events,
                   closes, body, sent, exit, sentAtCancel, received, sawClose>>
    /\ UNCHANGED <<frame, frameBase>>
    /\ UNCHANGED idVars
    /\ UNCHANGED rulesVars
    /\ UNCHANGED listenVars

\* the goroutine returns: defer res.Body.Close() runs
Exit(s) ==
    /\ wpc[s] = "exit"
    /\ body' = [body EXCEPT ![s] = "closed"]
    /\ wpc' = [wpc EXCEPT ![s] = "done"]
    /\ UNCHANGED <<ctxDone, watchBufLen, call, ret, nreads, typ, data, errEvent, events,
                   closes, sent, exit, sentAtCancel, received, sawClose>>
    /\ UNCHANGED <<frame, frameBase>>
    /\ UNCHANGED idVars
    /\ UNCHANGED rulesVars
    /\ UNCHANGED listenVars

\* the steps of the read loop goroutine of session s
WatchLoop(s) ==
    \/ Select(s)
    \/ ReadEvent(s)
    \/ ReadData(s)
    \/ Emit(s)
    \/ ReadEmpty(s)
    \/ SendErr(s)
    \/ Close(s)
    \/ Exit(s)

\* the caller of Watch receives from the returned channel: the next buffered
\* value, or the closed state once the buffer is empty
Recv(s) ==
    /\ ret[s] # Nil
    /\ ret[s][1].events
    /\ \/ /\ events[s] # <<>>
          /\ received' = [received EXCEPT ![s] = Append(@, Head(events[s]))]
          /\ events' = [events EXCEPT ![s] = Tail(@)]
          /\ UNCHANGED sawClose
       \/ /\ events[s] = <<>>
          /\ Closed(s)
          /\ ~sawClose[s]
          /\ sawClose' = [sawClose EXCEPT ![s] = TRUE]
          /\ UNCHANGED <<events, received>>
    /\ UNCHANGED <<ctxDone, watchBufLen, call, ret, wpc, nreads, typ, data, errEvent, closes,
                   body, sent, exit, sentAtCancel>>
    /\ UNCHANGED <<frame, frameBase>>
    /\ UNCHANGED idVars
    /\ UNCHANGED rulesVars
    /\ UNCHANGED listenVars

(***************************************************************************)
(* Listen: the goroutine that runs one Watch session after the other and   *)
(* forwards the events of the requested types on its own channel.          *)
(***************************************************************************)
\* the eventTypes lists callers pass: one type, a synthesized type among
\* them, the same type twice
EventTypeLists ==
    { <<EventTypePut>>, <<EventTypePut, EventTypeClosed>>,
      <<EventTypePatch, EventTypePatch>> }

\* Listen has made its channel and started its goroutine
InitListen ==
    /\ eventTypes \in EventTypeLists
    /\ lpc = "select"
    /\ cur = 0
    /\ le = Nil
    /\ ti = 0
    /\ levents = <<>>
    /\ lcloses = 0
    /\ lreceived = <<>>

\* the values sent on Listen's channel so far, in order
Forwarded == lreceived \o levents

\* a select whose Done case closes the channel and goes round the loop again
ListenSelectCloseAndLoop ==
    /\ lpc = "select"
    /\ IF ctxDone
       THEN /\ lcloses' = lcloses + 1
            /\ lpc' = "select"
       ELSE /\ cur < MaxSessions
            /\ lpc' = "watch"
            /\ UNCHANGED lcloses
    /\ UNCHANGED <<eventTypes, cur, le, ti, levents, lreceived>>
    /\ UNCHANGED watchVars
    /\ UNCHANGED idVars
    /\ UNCHANGED rulesVars

\* select { default: ...; case <-ctxt.Done(): close(events); return }; the
\* default case is taken for MaxSessions Watch calls
ListenSelect ==
    /\ lpc = "select"
    /\ IF ctxDone
       THEN /\ lcloses' = lcloses + 1
            /\ lpc' = "done"
       ELSE /\ cur < MaxSessions
            /\ lpc' = "watch"
            /\ UNCHANGED lcloses
    /\ UNCHANGED <<eventTypes, cur, le, ti, levents, lreceived>>
    /\ UNCHANGED watchVars
    /\ UNCHANGED idVars
    /\ UNCHANGED rulesVars

\* a Listen that goes back to its select when Watch returns an error
ListenWatchRetry(s) ==
    /\ lpc = "watch"
    /\ s = cur + 1
    /\ Watch(s)
    /\ cur' = s
    /\ lpc' = IF ret'[s][1].err THEN "select" ELSE "range"
    /\ UNCHANGED <<eventTypes, le, ti, levents, lcloses, lreceived>>
    /\ UNCHANGED idVars
    /\ UNCHANGED rulesVars

\* ev, err := Watch(r, ctxt, opts...); if err != nil { close(events); return }
ListenWatch(s) ==
    /\ lpc = "watch"
    /\ s = cur + 1
    /\ Watch(s)
    /\ cur' = s
    /\ IF ret'[s][1].err
       THEN /\ lcloses' = lcloses + 1
            /\ lpc' = "done"
       ELSE /\ lpc' = "range"
            /\ UNCHANGED lcloses
    /\ UNCHANGED <<eventTypes, le, ti, levents, lreceived>>
    /\ UNCHANGED idVars
    /\ UNCHANGED rulesVars

\* a range that ends as soon as the session's channel is empty
ListenRangeEager ==
    /\ lpc = "range"
    /\ \/ /\ events[cur] # <<>>
          /\ le' = <<Head(events[cur])>>
          /\ received' = [received EXCEPT ![cur] = Append(@, Head(events[cur]))]
          /\ events' = [events EXCEPT ![cur] = Tail(@)]
          /\ ti' = 1
          /\ lpc' = "forward"
          /\ UNCHANGED sawClose
       \/ /\ events[cur] = <<>>
          /\ sawClose' = [sawClose EXCEPT ![cur] = TRUE]
          /\ lpc' = "select"
          /\ UNCHANGED <<le, ti, events, received>>
    /\ UNCHANGED <<eventTypes, cur, levents, lcloses, lreceived>>
    /\ UNCHANGED <<ctxDone, watchBufLen, call, ret, wpc, nreads, typ, data, errEvent, closes,
                   body, sent, exit, sentAtCancel, frame, frameBase>>
    /\ UNCHANGED idVars
    /\ UNCHANGED rulesVars

\* for e := range ev: the next value of the session's channel, or the end of
\* the range once the channel is closed and empty; Watch never sends nil, so
\* "if e == nil" is not taken
ListenRange ==
    /\ lpc = "range"
    /\ \/ /\ events[cur] # <<>>
          /\ le' = <<Head(events[cur])>>
          /\ received' = [received EXCEPT ![cur] = Append(@, Head(events[cur]))]
          /\ events' = [events EXCEPT ![cur] = Tail(@)]
          /\ ti' = 1
          /\ lpc' = "forward"
          /\ UNCHANGED sawClose
       \/ /\ events[cur] = <<>>
          /\ Closed(cur)
          /\ sawClose' = [sawClose EXCEPT ![cur] = TRUE]
          /\ lpc' = "select"
          /\ UNCHANGED <<le, ti, events, received>>
    /\ UNCHANGED <<eventTypes, cur, levents, lcloses, lreceived>>
    /\ UNCHANGED <<ctxDone, watchBufLen, call, ret, wpc, nreads, typ, data, errEvent, closes,
                   body, sent, exit, sentAtCancel, frame, frameBase>>
    /\ UNCHANGED idVars
    /\ UNCHANGED rulesVars

\* a loop over eventTypes that sends e for every entry, matching or not
ListenForwardAny ==
    /\ lpc = "forward"
    /\ Len(levents) < watchBufLen
    /\ levents' = Append(levents, le[1])
    /\ IF ti < Len(eventTypes)
       THEN /\ ti' = ti + 1
            /\ UNCHANGED <<lpc, le>>
       ELSE /\ ti' = 0
            /\ le' = Nil
            /\ lpc' = "range"
    /\ UNCHANGED <<eventTypes, cur, lcloses, lreceived>>
    /\ UNCHANGED watchVars
    /\ UNCHANGED idVars
    /\ UNCHANGED rulesVars

\* a loop over eventTypes that never sends a synthesized event
ListenForwardProtocol ==
    /\ lpc = "forward"
    /\ IF eventTypes[ti] = le[1].Type /\ le[1].Type \notin TerminalTypes
       THEN /\ Len(levents) < watchBufLen
            /\ levents' = Append(levents, le[1])
       ELSE UNCHANGED levents
    /\ IF ti < Len(eventTypes)
       THEN /\ ti' = ti + 1
            /\ UNCHANGED <<lpc, le>>
       ELSE /\ ti' = 0
            /\ le' = Nil
            /\ lpc' = "range"
    /\ UNCHANGED <<eventTypes, cur, lcloses, lreceived>>
    /\ UNCHANGED watchVars
    /\ UNCHANGED idVars
    /\ UNCHANGED rulesVars

\* for _, typ := range eventTypes { if typ == e.Type { events <- e } }: one
\* entry of the list, then back to the range after the last one
ListenForward ==
    /\ lpc = "forward"
    /\ IF eventTypes[ti] = le[1].Type
       THEN /\ Len(levents) < watchBufLen
            /\ levents' = Append(levents, le[1])
       ELSE UNCHANGED levents
    /\ IF ti < Len(eventTypes)
       THEN /\ ti' = ti + 1
            /\ UNCHANGED <<lpc, le>>
       ELSE /\ ti' = 0
            /\ le' = Nil
            /\ lpc' = "range"
    /\ UNCHANGED <<eventTypes, cur, lcloses, lreceived>>
    /\ UNCHANGED watchVars
    /\ UNCHANGED idVars
    /\ UNCHANGED rulesVars

\* the caller of Listen receives the next value of the returned channel
ListenRecv ==
    /\ levents # <<>>
    /\ lreceived' = Append(lreceived, Head(levents))
    /\ levents' = Tail(levents)
    /\ UNCHANGED <<eventTypes, lpc, cur, le, ti, lcloses>>
    /\ UNCHANGED watchVars
    /\ UNCHANGED idVars
    /\ UNCHANGED rulesVars

(***************************************************************************)
(* The security rules: Do, SetRulesJSON, GetRulesJSON and the database.    *)
(***************************************************************************)
OpTypeGet == "GET"
OpTypeSet == "PUT"

\* the path of r.Ref("/.settings/rules")
RulesPath == "/.settings/rules"

\* JSON documents: which document, and whether it is indented
Docs == { [doc |-> d, indent |-> i] : d \in {"a", "b"}, i \in BOOLEAN }
NullDoc == [doc |-> "null", indent |-> FALSE]

\* the buf arguments of SetRulesJSON: JSON documents and bytes that do not
\* decode
Bufs ==
    { [valid |-> TRUE, doc |-> d.doc, indent |-> d.indent] : d \in Docs }
    \cup { [valid |-> FALSE, doc |-> "", indent |-> FALSE] }

\* e.SetIndent("", "  "); e.Encode(&v): the decoded document, indented
Encoded(buf) == [doc |-> buf.doc, indent |-> TRUE]

\* no request has been made; the database stores some rules
NoRequests ==
    /\ rules = [doc |-> "a", indent |-> TRUE]
    /\ requests = <<>>

InitRules ==
    /\ rules \in { d \in Docs : d.indent }
    /\ requests = <<>>

\* what the database answers to a request on the rules and what it stores
\* afterwards: a GET changes nothing, a PUT with a document stores it, a PUT
\* without one is refused or stores null, and any request can be refused
Serve(op, v) ==
    { [status |-> 401, rules |-> rules] }
    \cup IF op = OpTypeGet THEN { [status |-> 200, rules |-> rules] }
         ELSE IF v # Nil THEN { [status |-> 200, rules |-> v[1]] }
         ELSE { [status |-> 400, rules |-> rules], [status |-> 200, rules |-> NullDoc] }

\* Do(op, r.Ref("/.settings/rules"), v, d) called by fn: the request is
\* executed with method string(op)
Do(fn, op, v) ==
    /\ Len(requests) < MaxRequests
    /\ \E out \in Serve(op, v) :
        /\ rules' = out.rules
        /\ requests' = Append(requests,
               [fn |-> fn, method |-> op, path |-> RulesPath, body |-> v,
                err |-> checkServerError(out.status), before |-> rules, after |-> out.rules])
    /\ UNCHANGED idVars
    /\ UNCHANGED watchVars
    /\ UNCHANGED listenVars

\* Get(r, d) on the rules reference
Get == Do("Get", OpTypeGet, Nil)

\* SetRulesJSON(r, buf): decode buf, encode it indented, Do(OpTypeSet, ...)
SetRulesJSON(buf) ==
    /\ buf.valid
    /\ Do("SetRulesJSON", OpTypeSet, <<Encoded(buf)>>)

\* GetRulesJSON(r): Do(OpTypeSet, r.Ref("/.settings/rules"), nil, &d)
GetRulesJSON == Do("GetRulesJSON", OpTypeSet, Nil)

(***************************************************************************)
(* Specifications.                                                         *)
(***************************************************************************)
\* Listen is not called
NoListen ==
    /\ eventTypes = <<>>
    /\ lpc = "none"
    /\ cur = 0
    /\ le = Nil
    /\ ti = 0
    /\ levents = <<>>
    /\ lcloses = 0
    /\ lreceived = <<>>

\* the generator used by NumCallers goroutines; no Watch call is made
InitID == InitIDGen /\ InitWatch /\ NoListen /\ NoRequests /\ watchBufLen = 0

SpecIDGen == InitID /\ [][NextIDGen]_vars

\* one Watch call, its read loop, its consumer and the owner of the context
InitW ==
    InitIDGen /\ last = [i \in 0..(LastLen - 1) |-> 0] /\ InitWatch /\ NoListen /\ NoRequests

NextWatch ==
    \/ Cancel
    \/ WatchCall(1)
    \/ WatchLoop(1)
    \/ Recv(1)

SpecWatch == InitW /\ [][NextWatch]_vars

\* the scheduler runs a goroutine that can take a step, and the consumer
\* keeps receiving; nothing obliges the network to deliver a line
FairSpecWatch ==
    /\ SpecWatch
    /\ WF_vars(Select(1))
    /\ WF_vars(Emit(1))
    /\ WF_vars(SendErr(1))
    /\ WF_vars(Close(1))
    /\ WF_vars(Exit(1))
    /\ WF_vars(Recv(1))

\* one Listen call on a reference made with WatchBufferLen(1), the read loops
\* of the sessions it opens, its consumer and the owner of the context
InitL ==
    /\ InitIDGen
    /\ last = [i \in 0..(LastLen - 1) |-> 0]
    /\ InitWatch
    /\ watchBufLen = 1
    /\ InitListen
    /\ NoRequests

\* the number of lines the sessions 1..n have read
RECURSIVE TotalReads(_)
TotalReads(n) == IF n = 0 THEN 0 ELSE nreads[n] + TotalReads(n - 1)

\* a step of the read loop of a session opened by Listen; the sessions of
\* one Listen call read MaxListenReads lines between them
SessionLoop(s) ==
    /\ wpc[s] \in {"readEvent", "readData", "readEmpty"} => TotalReads(MaxSessions) < MaxListenReads
    /\ WatchLoop(s)

NextListen ==
    \/ Cancel
    \/ ListenSelect
    \/ \E s \in Sessions : ListenWatch(s)
    \/ ListenRange
    \/ ListenForward
    \/ ListenRecv
    \/ \E s \in Sessions : SessionLoop(s)

SpecListen == InitL /\ [][NextListen]_vars

\* the scheduler runs every goroutine that can take a step, a Watch call
\* returns, and the consumer keeps receiving; nothing obliges the network to
\* deliver a line
FairSpecListen ==
    /\ SpecListen
    /\ WF_vars(ListenSelect)
    /\ WF_vars(\E s \in Sessions : ListenWatch(s))
    /\ WF_vars(ListenRange)
    /\ WF_vars(ListenForward)
    /\ WF_vars(ListenRecv)
    /\ \A s \in Sessions :
        /\ WF_vars(Select(s))
        /\ WF_vars(Emit(s))
        /\ WF_vars(SendErr(s))
        /\ WF_vars(Close(s))
        /\ WF_vars(Exit(s))

\* a program that reads and sets the security rules of one database
InitR ==
    /\ InitIDGen
    /\ last = [i \in 0..(LastLen - 1) |-> 0]
    /\ InitWatch
    /\ watchBufLen = 0
    /\ NoListen
    /\ InitRules

NextRules ==
    \/ Get
    \/ GetRulesJSON
    \/ \E buf \in Bufs : SetRulesJSON(buf)

SpecRules == InitR /\ [][NextRules]_vars

(***************************************************************************)
(* Properties of the identifier generator, checked under SpecIDGen.        *)
(***************************************************************************)
\* the 64 bytes of defaultPushIDChars
Alphabet == { defaultPushIDChars[k] : k \in 1..Len(defaultPushIDChars) }

\* the base-64 digit of weight 64^p of the number t
RECURSIVE DigitOf(_, _)
DigitOf(t, p) == IF p = 0 THEN t % Base ELSE DigitOf(t \div Base, p - 1)

\* C1: of any two identifiers returned by one generator, the one whose call
\* passed through the critical section later is strictly greater as a string,
\* also when both calls read the same millisecond.
C1_StrictlyIncreasing ==
    \A a \in issued : \A b \in issued :
        a.ticket < b.ticket => StrLess(a.id, b.id)

C3_Format ==
    \A r \in issued :
        /\ Len(r.id) = IDLen
        /\ \A k \in 1..IDLen : r.id[k] \in Alphabet
        /\ \A k \in 1..StampLen :
            r.id[k] = CharAt(DigitOf(r.now, StampLen - k))
        /\ \A k \in (StampLen + 1)..IDLen : r.id[k] = CharAt(r.last[IDLen - k])

\* an identifier issued after the clock has carried into a higher stamp digit,
\* with counter digits that differ from end to end
C3_Witness ==
    \E r \in issued :
        /\ r.now > StartClock
        /\ r.last[0] # r.last[LastLen - 1]
        /\ r.id[StampLen] # r.id[StampLen - 1]

\* whether the counter l2, read as a base-64 number with digit 0 least
\* significant, is the counter l1 plus one
IsSucc(l2, l1) ==
    \E k \in 0..(LastLen - 1) :
        /\ l1[k] < Base - 1
        /\ l2[k] = l1[k] + 1
        /\ \A i \in 0..(k - 1) : l1[i] = Base - 1 /\ l2[i] = 0
        /\ \A i \in (k + 1)..(LastLen - 1) : l2[i] = l1[i]

\* C24: of two calls that passed through the critical section one right
\* after the other and read the same millisecond, the second left the counter
\* at the value the first left plus one, and its identifier carries the
\* digits of that value.
C24_CounterPlusOne ==
    \A a \in issued : \A b \in issued :
        (b.ticket = a.ticket + 1 /\ b.now = a.now) =>
            /\ IsSucc(b.last, a.last)
            /\ \A k \in (StampLen + 1)..IDLen : b.id[k] = CharAt(b.last[IDLen - k])

\* C25: a critical section that reads a timestamp other than the stored
\* stamp leaves the counter as it is and stores the timestamp, and no step but
\* a critical section that reads the stored stamp changes the counter.
C25_CounterKeptOnNewStamp ==
    [][/\ last' # last => (mu # 0 /\ mu' = 0 /\ stamp = clock)
       /\ (mu # 0 /\ mu' = 0 /\ stamp # clock) => (last' = last /\ stamp' = clock)]_vars

\* two calls, one right after the other in different milliseconds, were
\* handed identifiers with the same counter digits
C25_Witness ==
    \E a \in issued : \E b \in issued :
        /\ b.ticket = a.ticket + 1
        /\ b.now # a.now
        /\ b.last = a.last
        /\ \E i \in 0..(LastLen - 1) : b.last[i] # 0

\* timestamps around the powers of 64 and at the ends of the range of the
\* model's integers
SampleStamps ==
    {0, 1, 62, 63, 64, 65, 4095, 4096, 4097, 262143, 262144, 16777215, 16777216,
     1073741823, 1073741824, 2147483646, 2147483647}

\* the first eight bytes GeneratePushID returns for the timestamp t
Prefix(t) == SubSeq(String(SetStamp(NewID, t, StampLen - 1)), 1, StampLen)

\* C26: defaultPushIDChars is strictly ascending; the 8-byte prefix of a
\* smaller timestamp is strictly less, bytewise, than that of a greater one
\* (computed for the sample timestamps before the first identifier is issued);
\* and an identifier issued in an earlier millisecond is strictly less than
\* one issued in a later millisecond, whatever their counter digits.
C26_PrefixOrderPreserving ==
    /\ \A i \in 0..(Base - 2) : CharAt(i) < CharAt(i + 1)
    /\ issued = {} =>
        LET prefix == [t \in SampleStamps \cup {clock} |-> Prefix(t)] IN
        \A t1 \in DOMAIN prefix : \A t2 \in DOMAIN prefix :
            t1 < t2 => StrLess(prefix[t1], prefix[t2])
    /\ \A a \in issued : \A b \in issued :
        a.now < b.now =>
            /\ StrLess(SubSeq(a.id, 1, StampLen), SubSeq(b.id, 1, StampLen))
            /\ StrLess(a.id, b.id)

\* an identifier of a later millisecond whose last stamp byte and whose last
\* counter byte are both smaller than those of an earlier identifier
C26_Witness ==
    \E a \in issued : \E b \in issued :
        /\ a.now < b.now
        /\ a.id[StampLen] > b.id[StampLen]
        /\ a.id[IDLen] > b.id[IDLen]

\* C30: a call leaves its critical section holding the timestamp it read and
\* the counter as it left it; no step of another call changes what it holds;
\* and the 20 bytes it returns are the digits of that timestamp and of that
\* counter, whatever ig.stamp and ig.last have become in the meantime.
C30_OwnCriticalSection ==
    [][\A c \in Callers :
        /\ (gpc[c] = "locked" /\ gpc'[c] = "encode") =>
            (now'[c] = clock /\ csLast'[c] = last')
        /\ (gpc[c] = "encode" /\ gpc'[c] = "encode") =>
            (now'[c] = now[c] /\ csLast'[c] = csLast[c] /\ id'[c] = id[c])
        /\ (gpc[c] = "encode" /\ gpc'[c] = "idle") =>
            \E r \in issued' \ issued :
                /\ r.caller = c
                /\ \A k \in 1..StampLen : r.id[k] = CharAt(DigitOf(now[c], StampLen - k))
                /\ \A k \in (StampLen + 1)..IDLen : r.id[k] = CharAt(csLast[c][IDLen - k])]_vars

\* a call returned its identifier after other calls had changed both the
\* stamp and the counter of the generator
C30_Witness ==
    \E r \in issued : r.overtaken

(***************************************************************************)
(* Properties of the Watch session, checked under SpecWatch.               *)
(***************************************************************************)
\* the positions at which the read loop is about to send on the channel
SendPcs == {"emit", "sendErr"}

\* the values of type t in a sequence of events
OfTypes(q, T) == { k \in 1..Len(q) : q[k].Type \in T }

\* C4: the channel of a session is closed at most once, exactly once when the
\* read loop has ended, only by a step of the read loop at its close, and
\* nothing is sent on it once it is closed.
C4_ClosedOnceNoSendAfter ==
    /\ [](\A s \in Sessions :
            /\ closes[s] <= 1
            /\ (wpc[s] \in {"exit", "done"} => closes[s] = 1))
    /\ [][\A s \in Sessions :
            /\ (closes'[s] # closes[s] => wpc[s] = "close" /\ wpc'[s] = "exit")
            /\ (Closed(s) => sent'[s] = sent[s])]_vars

\* a session that sent events and then closed its channel
C4_Witness ==
    \E s \in Sessions : wpc[s] = "done" /\ closes[s] = 1 /\ Len(sent[s]) >= 2

\* C5: a session that has closed its channel either left through an error
\* branch, and then sent exactly one terminal event, as the last value before
\* the close, or left through the cancellation branch and sent no terminal
\* event; a terminal event is followed by nothing but the close.
C5_OneTerminalOutcome ==
    \A s \in Sessions :
        /\ Closed(s) =>
            \/ /\ exit[s] = "error"
               /\ Cardinality(OfTypes(sent[s], TerminalTypes)) = 1
               /\ sent[s][Len(sent[s])].Type \in TerminalTypes
            \/ /\ exit[s] = "cancel"
               /\ OfTypes(sent[s], TerminalTypes) = {}
        /\ OfTypes(sent[s], TerminalTypes) # {} => wpc[s] \in {"close", "exit", "done"}

\* a session ended by a terminal event that followed a parsed event
C5_Witness ==
    \E s \in Sessions :
        /\ wpc[s] = "done"
        /\ exit[s] = "error"
        /\ Len(sent[s]) >= 2
        /\ sent[s][1].Type \notin TerminalTypes

\* the positions from the select of a read cycle to the end of the read loop
AtOrPastSelect == {"select", "close", "exit", "done"}

\* C6 as stated: once the context is cancelled nothing more is sent on the
\* session's channel.
C6_NoSendAfterCancel ==
    [][\A s \in Sessions : ctxDone => sent'[s] = sent[s]]_vars

\* C6 as amended: after the cancellation the read loop starts no new read
\* cycle; only the cycle in progress may still send, at most its parsed event
\* and one terminal event; from the select on nothing is sent, and a loop that
\* leaves through the cancellation branch has sent no terminal event.
C6_NoSendAfterCancelObserved ==
    /\ [](\A s \in Sessions :
            /\ (ctxDone => Len(sent[s]) <= sentAtCancel[s] + 2)
            /\ (exit[s] = "cancel" => ctxDone /\ OfTypes(sent[s], TerminalTypes) = {}))
    /\ [][\A s \in Sessions :
            (ctxDone /\ wpc[s] \in AtOrPastSelect) =>
                (sent'[s] = sent[s] /\ wpc'[s] \in AtOrPastSelect)]_vars

\* a session that sent after the cancellation and then closed without a
\* terminal event
C6_Witness ==
    \E s \in Sessions :
        /\ ctxDone
        /\ wpc[s] = "done"
        /\ exit[s] = "cancel"
        /\ Len(sent[s]) > sentAtCancel[s]

\* C7: once the context is done, a started session eventually ends (the read
\* loop has returned and the channel is closed), while the consumer keeps
\* receiving and whatever the stream does.
C7_CancelEndsSession ==
    \A s \in Sessions :
        (ctxDone /\ wpc[s] # "none") ~> (wpc[s] = "done" /\ Closed(s))

\* C8: a read loop blocked on a send to a full channel when the context is
\* done can go on (through the cancellation branch) without the consumer
\* receiving anything.
C8_CancelUnblocksSend ==
    \A s \in Sessions :
        (/\ ctxDone
         /\ wpc[s] \in SendPcs
         /\ watchBufLen > 0
         /\ Len(events[s]) = watchBufLen) => ENABLED WatchLoop(s)

\* C9: whenever the read loop of a session has returned, the response body of
\* the session is closed.
C9_BodyClosedOnExit ==
    \A s \in Sessions : wpc[s] = "done" => body[s] = "closed"

\* read loops that returned through the cancellation branch, with the body
\* closed
C9_Witness ==
    \E s \in Sessions : wpc[s] = "done" /\ exit[s] = "cancel" /\ body[s] = "closed"

\* C10: a Watch call whose request could not be built or executed, or whose
\* response status is outside 200-299, has returned a nil channel and an
\* error, and no read loop runs for it.
C10_FailedRequestNoLoop ==
    \A s \in Sessions :
        /\ call[s] # Nil => ret[s] # Nil
        /\ (/\ call[s] # Nil
            /\ \/ call[s][1].fails # "no"
               \/ call[s][1].status \notin 200..299) =>
            /\ ret[s] = <<[events |-> FALSE, err |-> TRUE]>>
            /\ wpc[s] = "none"
            /\ sent[s] = <<>>
            /\ closes[s] = 0

\* a Watch call answered with a status below 200 and one answered above 299
C10_Witness ==
    \E s \in Sessions :
        /\ call[s] # Nil
        /\ call[s][1].fails = "no"
        /\ call[s][1].status < 200
        /\ ret[s] = <<[events |-> FALSE, err |-> TRUE]>>

\* C11: what the consumer has received from a session's channel, followed by
\* what the channel still buffers, is exactly what the read loop has sent, in
\* order: the received sequence is a prefix of the produced one, nothing is
\* dropped, duplicated or reordered, and the buffer never holds more than
\* r.watchBufLen values, for every capacity.
C11_ReceivedIsPrefix ==
    \A s \in Sessions :
        /\ received[s] \o events[s] = sent[s]
        /\ Len(events[s]) <= watchBufLen

\* the read loop waits to send on a full buffer after the consumer has
\* already received a value
C11_Witness ==
    /\ watchBufLen > 0
    /\ Len(events[1]) = watchBufLen
    /\ wpc[1] \in SendPcs
    /\ Len(received[1]) >= 1

\* whether the bytes b begin with the bytes p
StartsWith(b, p) == \A i \in 1..Len(p) : i <= Len(b) /\ b[i] = p[i]

\* the terminal event type the k-th read of an iteration calls for when
\* rdr.ReadBytes returned r, or Nil when the line is the expected one
Anomaly(k, r) ==
    CASE r.err = "EOF" -> <<EventTypeClosed>>
      [] r.err = "other" -> <<EventTypeUnknownError>>
      [] r.err = "nil" /\ k = 1 /\ ~StartsWith(r.line, watchEventPrefix) ->
            <<EventTypeMalformedEventError>>
      [] r.err = "nil" /\ k = 2 /\ ~StartsWith(r.line, watchDataPrefix) ->
            <<EventTypeMalformedDataError>>
      [] r.err = "nil" /\ k = 3 /\ (\E i \in 1..Len(r.line) : r.line[i] \notin WhiteSpace) ->
            <<EventTypeUnknownError>>
      [] OTHER -> Nil

\* the positions of a read loop that has left the reading for good
EndPcs == {"sendErr", "close", "exit", "done"}

\* C12: the last line read by a session decides errEvent: end of stream on
\* any of the three lines gives "closed", another read error gives
\* "unknown_error", a first line without "event: " gives
\* "malformed_event_error", a second line without "data: " gives
\* "malformed_data_error", a third line that is not blank gives
\* "unknown_error", and any other line gives no error event; once errEvent
\* is set the loop only sends it, closes and returns, and a loop that has
\* returned that way sent it last and closed the channel once.
C12_AnomalyClassified ==
    \A s \in Sessions :
        frame[s] # <<>> =>
            LET k == Len(frame[s])
                a == Anomaly(k, frame[s][k])
            IN  /\ k <= 3
                /\ (a = Nil) <=> (errEvent[s] = Nil)
                /\ a # Nil =>
                    /\ errEvent[s][1].Type = a[1]
                    /\ wpc[s] \in EndPcs
                    /\ wpc[s] = "done" =>
                        /\ exit[s] = "error"
                        /\ closes[s] = 1
                        /\ sent[s] # <<>>
                        /\ sent[s][Len(sent[s])] = errEvent[s][1]

\* a session whose third line was cut by the end of the stream has returned
C12_Witness ==
    /\ Len(frame[1]) = 3
    /\ frame[1][3].err = "EOF"
    /\ errEvent[1] # Nil
    /\ errEvent[1][1].Type = EventTypeClosed
    /\ wpc[1] = "done"

\* whether t is what is left of the bytes b once the prefix p and the white
\* space around the rest are taken away
Stripped(t, b, p) ==
    \E i \in Len(p)..Len(b) :
        \E j \in i..Len(b) :
            /\ t = SubSeq(b, i + 1, j)
            /\ \A k \in (Len(p) + 1)..i : b[k] \in WhiteSpace
            /\ \A k \in (j + 1)..Len(b) : b[k] \in WhiteSpace
            /\ t # <<>> => t[1] \notin WhiteSpace /\ t[Len(t)] \notin WhiteSpace

\* the iteration of session s has read an event line, a data line and a
\* blank line
WellFormedFrame(s) ==
    /\ Len(frame[s]) = 3
    /\ \A k \in 1..3 : Anomaly(k, frame[s][k]) = Nil

\* C13: an iteration that read a well-formed frame has sent exactly one
\* value, the event whose Type is the first line without "event: " and the
\* surrounding white space and whose Data is the second line without
\* "data: " and the surrounding white space, and has made no error event.
C13_WellFormedFrameEvent ==
    \A s \in Sessions :
        WellFormedFrame(s) =>
            /\ Len(sent[s]) = frameBase[s] + 1
            /\ Stripped(sent[s][Len(sent[s])].Type, frame[s][1].line, watchEventPrefix)
            /\ Stripped(sent[s][Len(sent[s])].Data, frame[s][2].line, watchDataPrefix)
            /\ errEvent[s] = Nil

\* the frame "event:  patch \r\n", "data: \t2 \n", " \r\n" was read and the
\* event patch/2 sent
C13_Witness ==
    /\ WellFormedFrame(1)
    /\ frame[1][1].line = LineEventPatch
    /\ frame[1][2].line = LineData2
    /\ frame[1][3].line = LineBlank
    /\ sent[1][Len(sent[1])] = Event(EventTypePatch, <<"2">>)



\* the number of values session s has sent in its current iteration
SentInCycle(s) == Len(sent[s]) - frameBase[s]

\* C27 as the specification has it: an iteration of the read loop sends at
\* most one value.
C27_OneValuePerCycle ==
    \A s \in Sessions : frame[s] # <<>> => SentInCycle(s) <= 1

\* C27: an iteration of the read loop sends at most two values. Once it is
\* over, a well-formed frame has given one value, the parsed event; an
\* anomaly in the first or second line has given one value, the terminal
\* event; and an anomaly in the third line has given two, the parsed event of
\* the first two lines and then the terminal event.
C27_ValuesPerCycle ==
    \A s \in Sessions :
        frame[s] # <<>> =>
            LET k == Len(frame[s])
                a == Anomaly(k, frame[s][k])
                n == SentInCycle(s)
            IN  /\ n <= 2
                /\ wpc[s] \in {"select", "close", "exit", "done"} =>
                    /\ (k = 3 /\ a = Nil) =>
                        /\ n = 1
                        /\ sent[s][Len(sent[s])] = Event(typ[s], data[s])
                    /\ (k < 3 /\ a # Nil) =>
                        /\ n = 1
                        /\ sent[s][Len(sent[s])].Type = a[1]
                    /\ (k = 3 /\ a # Nil) =>
                        /\ n = 2
                        /\ sent[s][Len(sent[s]) - 1] = Event(typ[s], data[s])
                        /\ sent[s][Len(sent[s])].Type = a[1]
                    /\ k < 3 => a # Nil

\* a frame whose third line is not blank has given its parsed event and an
\* "unknown_error" event
C27_Witness ==
    /\ Len(frame[1]) = 3
    /\ frame[1][3].line = LineJunk
    /\ wpc[1] = "done"
    /\ SentInCycle(1) = 2
    /\ sent[1][Len(sent[1]) - 1].Type = EventTypePut
    /\ sent[1][Len(sent[1])].Type = EventTypeUnknownError

(***************************************************************************)
(* Properties of Listen, checked under SpecListen and FairSpecListen.      *)
(***************************************************************************)

\* whether Watch call s returned an error / a channel
Failed(s) == ret[s] # Nil /\ ret[s][1].err
Established(s) == ret[s] # Nil /\ ret[s][1].events

\* C14: Listen's channel is closed only when the context is done.
C14_ClosedOnlyWhenDone ==
    lcloses > 0 => ctxDone

C16_LaterFailureTransient ==
    (\E s \in Sessions : Established(s)) => (lcloses > 0 => ctxDone)

\* the event types the caller of Listen asked for
Wanted == { eventTypes[k] : k \in 1..Len(eventTypes) }

\* C17: every value sent on Listen's channel has a Type that is an entry of
\* eventTypes.
C17_OnlyWantedForwarded ==
    \A i \in 1..Len(Forwarded) : Forwarded[i].Type \in Wanted

\* Listen has received an event of a type that was not asked for and is
\* through with it
C17_Witness ==
    /\ le = Nil
    /\ \E s \in Sessions :
        \E i \in 1..Len(received[s]) :
            /\ received[s][i].Type \notin Wanted
            /\ received[s][i].Type \notin TerminalTypes
            /\ \A j \in 1..Len(Forwarded) : Forwarded[j] # received[s][i]

\* the number of values of session s's channel Listen is through with: all it
\* has received but the one it holds in e
Handled(s) ==
    IF s = cur /\ le # Nil THEN Len(received[s]) - 1 ELSE Len(received[s])

\* C18 as the specification has it: no synthesized event is ever sent on
\* Listen's channel.
C18_TerminalNeverForwarded ==
    \A i \in 1..Len(Forwarded) : Forwarded[i].Type \notin TerminalTypes

\* C18: a synthesized event on Listen's channel has a Type that is an entry
\* of eventTypes, and every synthesized event Listen is through with whose
\* Type is an entry of eventTypes has been sent on Listen's channel.
C18_TerminalForwardedIffWanted ==
    /\ \A i \in 1..Len(Forwarded) :
        Forwarded[i].Type \in TerminalTypes => Forwarded[i].Type \in Wanted
    /\ \A s \in Sessions :
        \A k \in 1..Handled(s) :
            received[s][k].Type \in TerminalTypes \cap Wanted =>
                \E i \in 1..Len(Forwarded) : Forwarded[i] = received[s][k]

\* the consumer of Listen has received the "closed" event of a session
C18_Witness ==
    /\ EventTypeClosed \in Wanted
    /\ \E i \in 1..Len(lreceived) : lreceived[i].Type = EventTypeClosed
    /\ \E s \in Sessions : Closed(s) /\ exit[s] = "error"

\* C19: while the context is not cancelled, once Listen has seen a session's
\* channel closed its own channel is open, and the Watch call it makes next
\* gives it a new session.
C19_RestartKeepsOpen ==
    ~ctxDone =>
        \A s \in Sessions :
            sawClose[s] =>
                /\ lcloses = 0
                /\ (s < MaxSessions /\ call[s + 1] # Nil) => Established(s + 1)

\* C20: once the context is cancelled, Listen's channel is eventually
\* closed.
C20_CancelClosesListen ==
    ctxDone ~> (lcloses > 0)

\* C21: Listen's channel is closed at most once, and once it is closed Listen's
\* goroutine has returned: no step closes it again, sends on it, or makes a
\* Watch call.
C21_StoppedOnce ==
    [][/\ lcloses' <= 1
       /\ lcloses > 0 =>
            /\ lcloses' = lcloses
            /\ Forwarded' = Forwarded
            /\ call' = call
            /\ lpc = "done"
            /\ lpc' = "done"]_vars

\* Listen has closed its channel on cancellation after forwarding an event,
\* and the consumer receives what is still buffered
C21_Witness ==
    /\ lcloses = 1
    /\ lpc = "done"
    /\ ctxDone
    /\ lreceived # <<>>
    /\ cur >= 1

\* the goroutines of Listen and of its sessions have returned or were never
\* started
AllReturned ==
    /\ lpc = "done"
    /\ \A s \in Sessions : wpc[s] \in {"none", "done"}

\* C22: when the context is cancelled before the sessions have read a line,
\* then, unless a line arrives after all, Listen's channel gets closed with
\* nothing sent on it and every goroutine returns.
C22_CancelBeforeData ==
    (ctxDone /\ TotalReads(MaxSessions) = 0) ~>
        \/ TotalReads(MaxSessions) > 0
        \/ (lcloses > 0 /\ Forwarded = <<>> /\ AllReturned)

(***************************************************************************)
(* Properties of the security rules operations, checked under SpecRules.   *)
(***************************************************************************)
\* C23: every request GetRulesJSON makes is a GET on /.settings/rules and
\* leaves the stored rules as they were.
C23_GetRulesJSONReadOnly ==
    \A i \in 1..Len(requests) :
        requests[i].fn = "GetRulesJSON" =>
            /\ requests[i].method = OpTypeGet
            /\ requests[i].path = RulesPath
            /\ requests[i].after = requests[i].before

\* the number of values of a wanted type Listen has received from the
\* sessions 1..n
RECURSIVE WantedReceived(_)
WantedReceived(n) ==
    IF n = 0 THEN 0
    ELSE Cardinality({ k \in 1..Len(received[n]) : received[n][k].Type \in Wanted })
         + WantedReceived(n - 1)

\* C28: Listen has sent on its channel at most as many values as it has
\* received values of a wanted type from its sessions, and exactly as many
\* when it is between two events.
C28_ForwardedAtMostOnce ==
    /\ Len(Forwarded) <= WantedReceived(MaxSessions)
    /\ le = Nil => Len(Forwarded) = WantedReceived(MaxSessions)

\* the positions from which a read loop can still come to send a value
LivePcs == {"select", "readEvent", "readData", "emit", "readEmpty", "sendErr"}

\* C29: at most one session of Listen has a read loop that can still send,
\* and when Listen has made a further Watch call the session before it has
\* closed its channel, its read loop is past the close, and Listen has
\* received everything that session sent.
C29_OneLiveSession ==
    /\ Cardinality({ s \in Sessions : wpc[s] \in LivePcs }) <= 1
    /\ \A s \in Sessions :
        (s < MaxSessions /\ call[s + 1] # Nil) =>
            /\ Closed(s)
            /\ wpc[s] \in {"exit", "done"}
            /\ events[s] = <<>>
            /\ received[s] = sent[s]

\* the second session is about to send while the first, which sent a value,
\* has closed its channel
C29_Witness ==
    /\ wpc[2] \in SendPcs
    /\ Closed(1)
    /\ sent[1] # <<>>
    /\ cur = 2

====
